---------------------------- MODULE Spec2Model ----------------------------
(***************************************************************************)
(* Real-time synchronisation layer of the swarm dashboard.                 *)
(*                                                                         *)
(*  - server hub (SwarmGUIServer): the clients map, the connection         *)
(*    handler, the ping interval and broadcast                             *)
(*  - browser client (WebSocketProvider): connect / onopen / onerror /     *)
(*    onclose, the reconnect timer and the unmount cleanup                 *)
(*  - messages (onmessage, sendMessage) and the projection of            *)
(*    SwarmProvider (message effect, swarmReducer, loadAssistants)         *)
(*  - the assistant routes and delegateTask of the server                  *)
(*                                                                         *)
(* Every handler is one atomic action: both programs run on a single       *)
(* JavaScript event loop, so a handler is never interleaved with another.  *)
(***************************************************************************)
EXTENDS Integers, Sequences, FiniteSets, TLC

\* ------------------------------------------------------------------------
\* Bounds of the model
\* ------------------------------------------------------------------------

\* Connections the server accepts in one behaviour.
MaxConns == 3

\* WebSocket objects one provider constructs in one behaviour.
MaxSockets == 7

\* Frames one provider receives in one behaviour.
MaxFrames == 3

\* Calls of sendMessage in one behaviour.
MaxSends == 2

\* Tasks delegated in one behaviour.
MaxTasks == 1

\* Assistant routes (create, update, delete) handled in one behaviour.
MaxOps == 2

\* Connection ids.  uuidv4() is modelled as the next unused number, so the
\* insertion order of the Map is the order of the ids.
Ids == 1..MaxConns

VARIABLES
    \* ---- server (SwarmGUIServer) ----
    clients,      \* keys of this.clients (the Map<string, WebSocketClient>)
    isAlive,      \* client.isAlive of every WebSocketClient object created
    readyState,   \* ws.readyState of every accepted transport
    accepted,     \* history: number of 'connection' events handled
    removed,      \* history: number of deletes that found their key
    sinceProbe,   \* history: probes sent to a connection since its last pong
    lastOp,       \* history: the handler that ran last and what it did
    \* ---- browser client (WebSocketProvider) ----
    phase,             \* "initial" (rendered, effects not run), "mounted", "unmounted"
    socket,            \* useState: the current WebSocket (Null or its number)
    isConnected,       \* useState
    connectionStatus,  \* useState
    reconnectAttempts, \* useState
    sockets,           \* every WebSocket object constructed: transport state,
                       \* events queued for its handlers, closure of its handlers
    created,           \* number of WebSocket objects constructed
    timers,            \* pending setTimeout callbacks of onclose
    delays,            \* history: delays scheduled since the last onopen
    clientOp,          \* history: the client handler that ran last
    \* ---- browser client: messages (WebSocketProvider, SwarmProvider) ----
    lastMessage,  \* useState of WebSocketProvider: the last parsed message
    effectDeps,   \* the lastMessage the message effect of SwarmProvider last ran for
    state,        \* useReducer of SwarmProvider: the projection
    frames,       \* number of frames received
    expected,     \* history: swarmReducer folded over every message published
    scenario,     \* history: how much of Scenario the effect has handled, in
                  \* order and from the initial projection (-1: something else)
    msgOp,        \* history: the message handler that ran last
    \* ---- browser client: sendMessage ----
    sendCalls,    \* history: number of calls of sendMessage
    transmitted,  \* history: the calls whose message was handed to socket.send,
                  \* and the socket it was handed to
    \* ---- server: delegateTask ----
    taskPc,       \* where delegateTask of every task is
    delivered,    \* history: the task envelopes every transport was handed,
                  \* by task
    \* ---- assistants: the server's list, the REST load, the frames ----
    store,        \* the assistants of the account (openaiClient.beta.assistants)
    wire,         \* envelopes sent to the client's transport, not received yet
    load,         \* loadAssistants: its position and the response in flight
    serverOps     \* history: number of assistant routes handled

serverVars == <<clients, isAlive, readyState, accepted, removed, sinceProbe, lastOp>>

clientVars == <<phase, socket, isConnected, connectionStatus, reconnectAttempts,
                sockets, created, timers, delays, clientOp>>

msgVars == <<lastMessage, effectDeps, state, frames, expected, scenario, msgOp>>

sendVars == <<sendCalls, transmitted>>

taskVars == <<taskPc, delivered>>

loadVars == <<store, wire, load, serverOps>>

vars == <<serverVars, clientVars, msgVars, sendVars, taskVars, loadVars>>

\* ------------------------------------------------------------------------
\* Server: helpers
\* ------------------------------------------------------------------------

NoRecv == [c \in Ids |-> 0]

\* What a handler did: its name, the connection it was about, whether that
\* connection's key was in the map when the handler ran, the number of frames
\* each transport was handed by ws.send, whether the handler threw to its
\* caller, the connections the monitor evicted, and the inputs of a broadcast.
NoOp ==
    [op |-> "init", id |-> 0, tracked |-> FALSE, recv |-> NoRecv,
     threw |-> FALSE, evicted |-> {}, serializable |-> TRUE, throwers |-> {}]

\* this.clients.set(clientId, client)
MapSet(m, id) == m \cup {id}

\* Mutant of MapDelete: the entry is never removed.
MapDeleteKeepsEntry(m, id) == m

\* this.clients.delete(clientId): a key that is absent is left absent, and
\* nothing is thrown.
MapDelete(m, id) == m \ {id}

\* Mutant of IsOpen: the readyState test is missing.
IsOpenUnchecked(rs, c) == TRUE

\* client.ws.readyState === 1 // OPEN
IsOpen(rs, c) == rs[c] = "OPEN"

\* ws.terminate(): the socket is destroyed at once; the 'close' event is
\* emitted later.
Terminate(rs, c) == IF rs[c] = "OPEN" THEN [rs EXCEPT ![c] = "CLOSING"] ELSE rs

\* Mutant of PingVisit: a connection is evicted whatever its liveness flag.
PingVisitEvictsAlive(st, c) ==
    [st EXCEPT !.readyState = Terminate(@, c),
               !.clients = MapDelete(@, c),
               !.evicted = @ \cup {c}]

\* Mutant of PingVisit: the liveness flag is not reset when the probe is sent.
PingVisitNoReset(st, c) ==
    IF ~st.isAlive[c]
    THEN [st EXCEPT !.readyState = Terminate(@, c),
                    !.clients = MapDelete(@, c),
                    !.evicted = @ \cup {c}]
    ELSE [st EXCEPT !.sinceProbe[c] = @ + 1]

\* The body of the ping interval's forEach callback for one client.
\* st is the server state the interval works on.
PingVisit(st, c) ==
    IF ~st.isAlive[c]
    THEN [st EXCEPT !.readyState = Terminate(@, c),
                    !.clients = MapDelete(@, c),
                    !.evicted = @ \cup {c}]
    ELSE [st EXCEPT !.isAlive[c] = FALSE,
                    !.sinceProbe[c] = @ + 1]

\* Mutant of PingLoop: the walk ends at the first entry it deletes.
RECURSIVE PingLoopEndsAtDelete(_, _)
PingLoopEndsAtDelete(st, from) ==
    IF from > MaxConns THEN st
    ELSE IF from \notin st.clients THEN PingLoopEndsAtDelete(st, from + 1)
    ELSE IF ~st.isAlive[from] THEN PingVisit(st, from)
    ELSE PingLoopEndsAtDelete(PingVisit(st, from), from + 1)

\* this.clients.forEach of the ping interval.  Map.prototype.forEach walks the
\* live map in insertion order: a key deleted by the callback is simply not
\* there when the walk gets to it.
RECURSIVE PingLoop(_, _)
PingLoop(st, from) ==
    IF from > MaxConns THEN st
    ELSE IF from \notin st.clients THEN PingLoop(st, from + 1)
    ELSE PingLoop(PingVisit(st, from), from + 1)

\* this.clients.forEach of broadcast: ws.send(message) to every client whose
\* transport is open.  There is no try/catch: a send that throws ends the
\* forEach, and broadcast, there.
RECURSIVE SendLoop(_, _, _, _, _)
SendLoop(m, rs, throwers, from, recv) ==
    IF from > MaxConns THEN [recv |-> recv, threw |-> FALSE]
    ELSE IF from \notin m THEN SendLoop(m, rs, throwers, from + 1, recv)
    ELSE IF IsOpen(rs, from)
         THEN IF from \in throwers
              THEN [recv |-> recv, threw |-> TRUE]
              ELSE SendLoop(m, rs, throwers, from + 1,
                            [recv EXCEPT ![from] = @ + 1])
         ELSE SendLoop(m, rs, throwers, from + 1, recv)

\* Mutant of BroadcastResult: the payload is serialized after the sends.
BroadcastResultLateStringify(m, rs, serializable, throwers) ==
    LET r == SendLoop(m, rs, throwers, 1, NoRecv)
    IN  IF ~serializable THEN [recv |-> r.recv, threw |-> TRUE] ELSE r

\* broadcast(type, data): JSON.stringify first (it throws on a payload that
\* cannot be serialized, before the forEach is reached), then the forEach.
BroadcastResult(m, rs, serializable, throwers) ==
    IF ~serializable
    THEN [recv |-> NoRecv, threw |-> TRUE]
    ELSE SendLoop(m, rs, throwers, 1, NoRecv)

\* Mutant of Welcome: the welcome envelope goes to every open transport.
WelcomeToAll(m, rs, clientId) ==
    [c \in Ids |-> IF c \in m /\ IsOpen(rs, c) THEN 1 ELSE 0]

\* ws.send(JSON.stringify({ type: 'connected', clientId, timestamp })) of the
\* connection handler: one frame, on the transport of the handler's closure.
Welcome(m, rs, clientId) == [NoRecv EXCEPT ![clientId] = 1]

ServerInit ==
    /\ clients = {}
    /\ isAlive = [c \in Ids |-> FALSE]
    /\ readyState = [c \in Ids |-> "NONE"]
    /\ accepted = 0
    /\ removed = 0
    /\ sinceProbe = [c \in Ids |-> 0]
    /\ lastOp = NoOp

\* ------------------------------------------------------------------------
\* Server: handlers
\* ------------------------------------------------------------------------

\* wss.on('connection'): a fresh id, the client object stored in the map, the
\* welcome envelope sent to the new transport only.
Accept ==
    /\ accepted < MaxConns
    /\ LET clientId == accepted + 1 IN
        /\ clients' = MapSet(clients, clientId)
        /\ isAlive' = [isAlive EXCEPT ![clientId] = TRUE]
        /\ readyState' = [readyState EXCEPT ![clientId] = "OPEN"]
        /\ accepted' = accepted + 1
        /\ lastOp' = [NoOp EXCEPT !.op = "connection", !.id = clientId,
                                  !.recv = Welcome(clients', readyState', clientId)]
    /\ UNCHANGED <<removed, sinceProbe>>
    /\ UNCHANGED <<clientVars, msgVars, sendVars, taskVars, loadVars>>

\* ws.on('pong'): the closure's client object is marked alive.  A pong frame
\* only arrives on an open transport.
OnPong(c) ==
    /\ readyState[c] = "OPEN"
    /\ isAlive' = [isAlive EXCEPT ![c] = TRUE]
    /\ sinceProbe' = [sinceProbe EXCEPT ![c] = 0]
    /\ lastOp' = [NoOp EXCEPT !.op = "pong", !.id = c, !.tracked = c \in clients]
    /\ UNCHANGED <<clients, readyState, accepted, removed>>
    /\ UNCHANGED <<clientVars, msgVars, sendVars, taskVars, loadVars>>

\* The transport starts to close (the peer's close frame, the socket's end):
\* readyState leaves OPEN, no handler of the server runs yet.
TransportClosing(c) ==
    /\ readyState[c] = "OPEN"
    /\ readyState' = [readyState EXCEPT ![c] = "CLOSING"]
    /\ lastOp' = [NoOp EXCEPT !.op = "closing", !.id = c, !.tracked = c \in clients]
    /\ UNCHANGED <<clients, isAlive, accepted, removed, sinceProbe>>
    /\ UNCHANGED <<clientVars, msgVars, sendVars, taskVars, loadVars>>

\* ws.on('close'): emitted once per transport, after it closed or was
\* terminated.
OnClose(c) ==
    /\ readyState[c] = "CLOSING"
    /\ readyState' = [readyState EXCEPT ![c] = "CLOSED"]
    /\ clients' = MapDelete(clients, c)
    /\ removed' = IF c \in clients THEN removed + 1 ELSE removed
    /\ lastOp' = [NoOp EXCEPT !.op = "close", !.id = c, !.tracked = c \in clients]
    /\ UNCHANGED <<isAlive, accepted, sinceProbe>>
    /\ UNCHANGED <<clientVars, msgVars, sendVars, taskVars, loadVars>>

\* The setInterval callback (every 30 s).
MonitorTick ==
    LET st == PingLoop([clients |-> clients, isAlive |-> isAlive,
                        readyState |-> readyState, sinceProbe |-> sinceProbe,
                        evicted |-> {}], 1)
    IN  /\ clients' = st.clients
        /\ isAlive' = st.isAlive
        /\ readyState' = st.readyState
        /\ sinceProbe' = st.sinceProbe
        /\ removed' = removed + Cardinality(clients \ st.clients)
        /\ lastOp' = [NoOp EXCEPT !.op = "tick", !.evicted = st.evicted]
        /\ UNCHANGED accepted
        /\ UNCHANGED <<clientVars, msgVars, sendVars, taskVars, loadVars>>

\* broadcast(type, data), called by a route handler or a swarm callback.
\* serializable: whether JSON.stringify accepts the payload; throwers: the
\* transports whose ws.send throws in this call.
Broadcast(serializable, throwers) ==
    LET r == BroadcastResult(clients, readyState, serializable, throwers)
    IN  /\ lastOp' = [NoOp EXCEPT !.op = "broadcast", !.recv = r.recv,
                                  !.threw = r.threw,
                                  !.serializable = serializable,
                                  !.throwers = throwers]
        /\ UNCHANGED <<clients, isAlive, readyState, accepted, removed, sinceProbe>>
        /\ UNCHANGED <<clientVars, msgVars, sendVars, taskVars, loadVars>>

ServerNext ==
    \/ Accept
    \/ \E c \in Ids : OnPong(c)
    \/ \E c \in Ids : TransportClosing(c)
    \/ \E c \in Ids : OnClose(c)
    \/ MonitorTick
    \/ \E serializable \in BOOLEAN :
         \E throwers \in SUBSET {c \in clients : readyState[c] = "OPEN"} :
            Broadcast(serializable, throwers)

\* ------------------------------------------------------------------------
\* Server: delegateTask
\* ------------------------------------------------------------------------

\* Task ids.  uuidv4() is modelled as the next unused number.
Tasks == 1..MaxTasks

\* The envelopes that end a task.
TerminalTypes == {"task-completed", "task-error"}

\* The log of the task envelopes after a broadcast of an envelope of type
\* `type` for task t that handed r.recv[c] frames to transport c.
Log(d, t, type, r) ==
    [d EXCEPT ![t] = [c \in Ids |->
                        IF r.recv[c] > 0 THEN Append(@[c], type) ELSE @[c]]]

\* The transports a ws.send can throw on.
OpenClients == {c \in clients : readyState[c] = "OPEN"}

\* The throws of one broadcast: the forEach ends at the first send that
\* throws, so one transport at most matters.
Throwers == {{}} \cup {{c} : c \in OpenClients}

TaskInit ==
    /\ taskPc = [t \in Tasks |-> "none"]
    /\ delivered = [t \in Tasks |-> [c \in Ids |-> <<>>]]

\* POST /api/tasks/delegate with an initialized client: a fresh taskId, then
\* delegateTask up to its first await: broadcast('task-started', ...) inside
\* the try, whose catch broadcasts task-error.  The payload of task-started
\* comes from a JSON body, so it can be serialized.  A throw of the broadcast
\* in the catch rejects the promise of delegateTask, which nobody awaits.
Delegate(t, throwers, throwersInCatch) ==
    /\ taskPc[t] = "none"
    /\ \A u \in Tasks : u < t => taskPc[u] # "none"
    /\ LET started == BroadcastResult(clients, readyState, TRUE, throwers)
           failed == BroadcastResult(clients, readyState, TRUE, throwersInCatch)
       IN  IF started.threw
           THEN /\ taskPc' = [taskPc EXCEPT ![t] = "failed"]
                /\ delivered' = Log(Log(delivered, t, "task-started", started),
                                    t, "task-error", failed)
                /\ lastOp' = [NoOp EXCEPT !.op = "delegate", !.threw = failed.threw]
           ELSE /\ throwersInCatch = {}
                /\ taskPc' = [taskPc EXCEPT ![t] = "running"]
                /\ delivered' = Log(delivered, t, "task-started", started)
                /\ lastOp' = [NoOp EXCEPT !.op = "delegate"]
    /\ UNCHANGED <<clients, isAlive, readyState, accepted, removed, sinceProbe>>
    /\ UNCHANGED <<clientVars, msgVars, sendVars, loadVars>>

\* delegateWithPrompt resolves: broadcast('task-completed', ...) inside the
\* try; a throw of it (the response cannot be serialized, a send throws) is
\* caught and task-error is broadcast.
Resolve(t, serializable, throwers, throwersInCatch) ==
    /\ taskPc[t] = "running"
    /\ LET completed == BroadcastResult(clients, readyState, serializable, throwers)
           failed == BroadcastResult(clients, readyState, TRUE, throwersInCatch)
       IN  IF completed.threw
           THEN /\ taskPc' = [taskPc EXCEPT ![t] = "failed"]
                /\ delivered' = Log(Log(delivered, t, "task-completed", completed),
                                    t, "task-error", failed)
                /\ lastOp' = [NoOp EXCEPT !.op = "resolve", !.threw = failed.threw]
           ELSE /\ throwersInCatch = {}
                /\ taskPc' = [taskPc EXCEPT ![t] = "completed"]
                /\ delivered' = Log(delivered, t, "task-completed", completed)
                /\ lastOp' = [NoOp EXCEPT !.op = "resolve"]
    /\ UNCHANGED <<clients, isAlive, readyState, accepted, removed, sinceProbe>>
    /\ UNCHANGED <<clientVars, msgVars, sendVars, loadVars>>

\* delegateWithPrompt rejects: the catch broadcasts task-error.
Reject(t, throwers) ==
    /\ taskPc[t] = "running"
    /\ LET failed == BroadcastResult(clients, readyState, TRUE, throwers)
       IN  /\ taskPc' = [taskPc EXCEPT ![t] = "failed"]
           /\ delivered' = Log(delivered, t, "task-error", failed)
           /\ lastOp' = [NoOp EXCEPT !.op = "reject", !.threw = failed.threw]
    /\ UNCHANGED <<clients, isAlive, readyState, accepted, removed, sinceProbe>>
    /\ UNCHANGED <<clientVars, msgVars, sendVars, loadVars>>

\* The server while connections are accepted and tasks are delegated.
TaskNext ==
    \/ Accept
    \/ \E t \in Tasks : \E th, thc \in Throwers : Delegate(t, th, thc)
    \/ \E t \in Tasks : \E ser \in BOOLEAN : \E th, thc \in Throwers :
          Resolve(t, ser, th, thc)
    \/ \E t \in Tasks : \E th \in Throwers : Reject(t, th)

\* ------------------------------------------------------------------------
\* Client: WebSocketProvider
\* ------------------------------------------------------------------------

SockIds == 1..MaxSockets

\* socket === null
Null == 0

\* const maxReconnectAttempts = 5
maxReconnectAttempts == 5

\* Math.pow(2, n)
RECURSIVE Pow2(_)
Pow2(n) == IF n <= 0 THEN 1 ELSE 2 * Pow2(n - 1)

\* const delay = Math.pow(2, reconnectAttempts) * 1000
Delay(attempts) == Pow2(attempts) * 1000

\* The variables a `connect` closes over: a render's `socket` and
\* `reconnectAttempts` (useCallback's dependencies).  `connect` is called by
\* the mount effect, whose dependency list is empty, so that call uses the
\* closure of the first render; the timer callback of onclose calls the
\* `connect` in whose scope it was created, which is that same closure.
FirstRenderEnv == [socket |-> Null, reconnectAttempts |-> 0]

NoSocket == [readyState |-> "NONE", events |-> <<>>, env |-> FirstRenderEnv]

\* A state setter of a component that has unmounted changes nothing.
SetState(cur, new) == IF phase = "unmounted" THEN cur ELSE new

ClientInit ==
    /\ phase = "initial"
    /\ socket = Null
    /\ isConnected = FALSE
    /\ connectionStatus = "disconnected"
    /\ reconnectAttempts = 0
    /\ sockets = [s \in SockIds |-> NoSocket]
    /\ created = 0
    /\ timers = <<>>
    /\ delays = <<>>
    /\ clientOp = [op |-> "init", sock |-> Null]

\* socket.close(): a transport that is connecting or open starts to close;
\* on any other the call does nothing.
CloseSocket(ss, s) ==
    IF s # Null /\ ss[s].readyState \in {"CONNECTING", "OPEN"}
    THEN [ss EXCEPT ![s].readyState = "CLOSING"]
    ELSE ss

\* The cleanup of the [socket] effect: it closes the socket of the render it
\* belongs to, when `socket` changes and when the provider unmounts.  An
\* unmounted provider renders no more, so no cleanup runs for it.
SocketEffectCleanup(ss) ==
    IF phase = "mounted" THEN CloseSocket(ss, socket) ELSE ss

\* connect(), called with the closure env.  Sets connectionStatus, socket,
\* sockets and created.  setSocket(newSocket) makes the provider render
\* again, which runs the cleanup of the [socket] effect on the old socket.
Connect(env) ==
    IF env.socket # Null /\ sockets[env.socket].readyState = "OPEN"
    THEN UNCHANGED <<connectionStatus, socket, sockets, created>>
    ELSE /\ connectionStatus' = SetState(connectionStatus, "connecting")
         /\ created' = created + 1
         /\ sockets' = [SocketEffectCleanup(sockets) EXCEPT ![created + 1] =
                            [readyState |-> "CONNECTING", events |-> <<>>, env |-> env]]
         /\ socket' = SetState(socket, created + 1)

\* useEffect(() => { connect(); ... }, [])
Mount ==
    /\ phase = "initial"
    /\ phase' = "mounted"
    /\ Connect(FirstRenderEnv)
    /\ clientOp' = [op |-> "mount", sock |-> Null]
    /\ UNCHANGED <<isConnected, reconnectAttempts, timers, delays>>
    /\ UNCHANGED <<serverVars, msgVars, sendVars, taskVars, loadVars>>

\* The transport opens: newSocket.onopen
onopen(s) ==
    /\ sockets[s].readyState = "CONNECTING"
    /\ sockets' = [sockets EXCEPT ![s].readyState = "OPEN"]
    /\ isConnected' = SetState(isConnected, TRUE)
    /\ connectionStatus' = SetState(connectionStatus, "connected")
    /\ reconnectAttempts' = SetState(reconnectAttempts, 0)
    /\ delays' = <<>>
    /\ clientOp' = [op |-> "onopen", sock |-> s]
    /\ UNCHANGED <<phase, socket, created, timers>>
    /\ UNCHANGED <<serverVars, msgVars, sendVars, taskVars, loadVars>>

\* The connection fails (refused, dropped, timed out): the browser sets
\* readyState to CLOSED and fires error, then close.
TransportFail(s) ==
    /\ sockets[s].readyState \in {"CONNECTING", "OPEN"}
    /\ sockets' = [sockets EXCEPT ![s].readyState = "CLOSED",
                                  ![s].events = <<"error", "close">>]
    /\ clientOp' = [op |-> "fail", sock |-> s]
    /\ UNCHANGED <<phase, socket, isConnected, connectionStatus,
                   reconnectAttempts, created, timers, delays>>
    /\ UNCHANGED <<serverVars, msgVars, sendVars, taskVars, loadVars>>

\* The closing handshake completes (started by the server on an open
\* transport, or by socket.close()): the browser fires close.
TransportClosed(s) ==
    /\ sockets[s].readyState \in {"OPEN", "CLOSING"}
    /\ sockets' = [sockets EXCEPT ![s].readyState = "CLOSED",
                                  ![s].events = <<"close">>]
    /\ clientOp' = [op |-> "closed", sock |-> s]
    /\ UNCHANGED <<phase, socket, isConnected, connectionStatus,
                   reconnectAttempts, created, timers, delays>>
    /\ UNCHANGED <<serverVars, msgVars, sendVars, taskVars, loadVars>>

\* Mutant of onerror: the error handler schedules a reconnect too.
onerrorReconnects(s) ==
    /\ sockets[s].events # <<>>
    /\ Head(sockets[s].events) = "error"
    /\ sockets' = [sockets EXCEPT ![s].events = Tail(@)]
    /\ connectionStatus' = SetState(connectionStatus, "error")
    /\ timers' = Append(timers,
                        [delay |-> Delay(sockets[s].env.reconnectAttempts),
                         env |-> sockets[s].env])
    /\ clientOp' = [op |-> "onerror", sock |-> s]
    /\ UNCHANGED <<phase, socket, isConnected, reconnectAttempts, created, delays>>
    /\ UNCHANGED <<serverVars, msgVars, sendVars, taskVars, loadVars>>

\* newSocket.onerror
onerror(s) ==
    /\ sockets[s].events # <<>>
    /\ Head(sockets[s].events) = "error"
    /\ sockets' = [sockets EXCEPT ![s].events = Tail(@)]
    /\ connectionStatus' = SetState(connectionStatus, "error")
    /\ clientOp' = [op |-> "onerror", sock |-> s]
    /\ UNCHANGED <<phase, socket, isConnected, reconnectAttempts, created,
                   timers, delays>>
    /\ UNCHANGED <<serverVars, msgVars, sendVars, taskVars, loadVars>>

\* newSocket.onclose.  `reconnectAttempts` is the one of the handler's closure.
onclose(s) ==
    /\ sockets[s].events # <<>>
    /\ Head(sockets[s].events) = "close"
    /\ sockets' = [sockets EXCEPT ![s].events = Tail(@)]
    /\ isConnected' = SetState(isConnected, FALSE)
    /\ IF sockets[s].env.reconnectAttempts < maxReconnectAttempts
       THEN /\ connectionStatus' = SetState(connectionStatus, "disconnected")
            /\ timers' = Append(timers,
                                [delay |-> Delay(sockets[s].env.reconnectAttempts),
                                 env |-> sockets[s].env])
            /\ delays' = Append(delays, Delay(sockets[s].env.reconnectAttempts))
       ELSE /\ connectionStatus' = SetState(connectionStatus, "error")
            /\ UNCHANGED <<timers, delays>>
    /\ clientOp' = [op |-> "onclose", sock |-> s]
    /\ UNCHANGED <<phase, socket, reconnectAttempts, created>>
    /\ UNCHANGED <<serverVars, msgVars, sendVars, taskVars, loadVars>>

\* The setTimeout callback of onclose:
\* setReconnectAttempts(prev => prev + 1); connect();
TimerFire(i) ==
    /\ i \in 1..Len(timers)
    /\ created < MaxSockets
    /\ timers' = SubSeq(timers, 1, i - 1) \o SubSeq(timers, i + 1, Len(timers))
    /\ reconnectAttempts' = SetState(reconnectAttempts, reconnectAttempts + 1)
    /\ Connect(timers[i].env)
    /\ clientOp' = [op |-> "timer", sock |-> Null]
    /\ UNCHANGED <<phase, isConnected, delays>>
    /\ UNCHANGED <<serverVars, msgVars, sendVars, taskVars, loadVars>>

\* The provider unmounts.  The cleanup of the [] effect closes over the first
\* render's socket, which is null; the cleanup of the [socket] effect closes
\* the current socket.  No timer is cleared.
Unmount ==
    /\ phase = "mounted"
    /\ phase' = "unmounted"
    /\ sockets' = SocketEffectCleanup(sockets)
    /\ clientOp' = [op |-> "unmount", sock |-> socket]
    /\ UNCHANGED <<socket, isConnected, connectionStatus, reconnectAttempts,
                   created, timers, delays>>
    /\ UNCHANGED <<serverVars, msgVars, sendVars, taskVars, loadVars>>

\* Mutant of CanSend: the readyState test is missing.
CanSendUnchecked(ss, s) == s # Null

\* socket?.readyState === WebSocket.OPEN
CanSend(ss, s) == s # Null /\ ss[s].readyState = "OPEN"

SendInit ==
    /\ sendCalls = 0
    /\ transmitted = {}

\* sendMessage(message), called by a consumer of the context: socket.send on
\* the current socket when it is open, a warning otherwise.  Nothing is kept
\* of a message that was not sent.
sendMessage ==
    /\ phase = "mounted"
    /\ sendCalls < MaxSends
    /\ sendCalls' = sendCalls + 1
    /\ transmitted' =
          IF CanSend(sockets, socket)
          THEN transmitted \cup {[call |-> sendCalls + 1, sock |-> socket]}
          ELSE transmitted
    /\ clientOp' = [op |-> "sendMessage", sock |-> socket]
    /\ UNCHANGED <<phase, socket, isConnected, connectionStatus,
                   reconnectAttempts, sockets, created, timers, delays>>
    /\ UNCHANGED <<serverVars, msgVars, taskVars, loadVars>>

ClientNext ==
    \/ sendMessage
    \/ Mount
    \/ \E s \in SockIds : onopen(s)
    \/ \E s \in SockIds : TransportFail(s)
    \/ \E s \in SockIds : TransportClosed(s)
    \/ \E s \in SockIds : onerror(s)
    \/ \E s \in SockIds : onclose(s)
    \/ \E i \in 1..MaxSockets : TimerFire(i)
    \/ Unmount

\* ------------------------------------------------------------------------
\* Client: messages and the projection (onmessage, SwarmProvider, swarmReducer)
\* ------------------------------------------------------------------------

\* A field that is absent from an object.
Undefined == "undefined"

\* The payload of an envelope.  defined: the envelope has a `data` at all.
\* The other fields are the ones the message effect reads.
NoData ==
    [defined |-> FALSE, id |-> Undefined, name |-> Undefined,
     taskId |-> Undefined, prompt |-> Undefined, assistantIds |-> <<>>,
     response |-> Undefined, error |-> Undefined, config |-> Undefined]

PlainData == [NoData EXCEPT !.defined = TRUE]

AssistantData(id, name) == [PlainData EXCEPT !.id = id, !.name = name]

DeletedData(id) == [PlainData EXCEPT !.id = id]

ConfigData(c) == [PlainData EXCEPT !.config = c]

StartedData(t) ==
    [PlainData EXCEPT !.taskId = t, !.prompt = "p", !.assistantIds = <<"a1">>]

CompletedData(t, r) == [PlainData EXCEPT !.taskId = t, !.response = r]

ErrorData(t, e) == [PlainData EXCEPT !.taskId = t, !.error = e]

\* A parsed JSON object: its `type` (Undefined when it has none) and `data`.
Env(type, data) == [type |-> type, data |-> data]

\* The envelope types the message effect has no case for.
IgnoredTypes ==
    {"connected", "swarm-error", "parent-assistant-complete",
     "child-assistants-complete", "poll-event", "some-future-type"}

\* The envelopes of the model.
Envelopes ==
    {Env("swarm-initialized", PlainData)}
    \cup {Env("assistant-created", d) :
            d \in {AssistantData("a1", "X"), AssistantData("a1", "Y"),
                   AssistantData("a2", "X"), NoData}}
    \cup {Env("assistant-updated", d) :
            d \in {AssistantData("a1", "Y"), AssistantData("a2", "Y")}}
    \cup {Env("assistant-deleted", DeletedData("a1"))}
    \cup {Env("config-updated", ConfigData("c1"))}
    \cup {Env("task-started", StartedData(t)) : t \in {"t1", "t2"}}
    \cup {Env("task-completed", CompletedData("t1", "r1"))}
    \cup {Env("task-error", ErrorData(t, "boom")) : t \in {"t1", "t2"}}
    \cup {Env(t, PlainData) : t \in IgnoredTypes}

\* The frames a transport delivers: text that is not JSON, a JSON object
\* without a type, and the envelopes.
Frames ==
    {[json |-> FALSE, value |-> Env(Undefined, NoData)]}
    \cup {[json |-> TRUE, value |-> m] : m \in Envelopes \cup {Env(Undefined, PlainData)}}

\* JSON.parse(event.data): throws on text that is not JSON.
JSONParse(frame) == [threw |-> ~frame.json, value |-> frame.value]

\* lastMessage === null
NoMessage == [seq |-> 0, type |-> Undefined, data |-> NoData]

\* const initialState (the fields the envelopes act on; isLoading,
\* apiKeyConfigured and error are written by the REST actions only).
initialState ==
    [assistants |-> <<>>, config |-> "initial", tasks |-> <<>>,
     isInitialized |-> FALSE]

\* The Assistant object of a payload.
AssistantOf(d) == [id |-> d.id, name |-> d.name]

\* const task: Task = { id, prompt, assistantIds, status: 'running', createdAt }
TaskOf(d) ==
    [id |-> d.taskId, prompt |-> d.prompt, assistantIds |-> d.assistantIds,
     status |-> "running", result |-> Undefined, error |-> Undefined]

\* ADD_ASSISTANT: [...state.assistants, action.payload]
AddAssistant(as, a) == Append(as, a)

\* Mutant of UpdateAssistant: an assistant that is absent is inserted.
UpdateAssistantUpsert(as, a) ==
    IF \E i \in 1..Len(as) : as[i].id = a.id
    THEN [i \in 1..Len(as) |-> IF as[i].id = a.id THEN a ELSE as[i]]
    ELSE Append(as, a)

\* UPDATE_ASSISTANT: state.assistants.map(...)
UpdateAssistant(as, a) ==
    [i \in 1..Len(as) |-> IF as[i].id = a.id THEN a ELSE as[i]]

\* REMOVE_ASSISTANT: state.assistants.filter(...)
RemoveAssistant(as, id) == SelectSeq(as, LAMBDA a : a.id # id)

\* Mutant of AddTask: the task is appended.
AddTaskAtTail(ts, t) == Append(ts, t)

\* ADD_TASK: [action.payload, ...state.tasks]
AddTask(ts, t) == <<t>> \o ts

\* Mutant of Merge: the updates are dropped.
MergeDropsUpdates(task, updates) == task

\* { ...task, ...action.payload.updates }
Merge(task, updates) ==
    [f \in DOMAIN task |-> IF f \in DOMAIN updates THEN updates[f] ELSE task[f]]

\* Mutant of UpdateTask: every task is updated, whatever its id.
UpdateTaskAll(ts, id, updates) ==
    [i \in 1..Len(ts) |-> Merge(ts[i], updates)]

\* UPDATE_TASK: state.tasks.map(...)
UpdateTask(ts, id, updates) ==
    [i \in 1..Len(ts) |-> IF ts[i].id = id THEN Merge(ts[i], updates) ELSE ts[i]]

\* function swarmReducer(state, action)
swarmReducer(st, action) ==
    CASE action.type = "SET_ASSISTANTS" ->
            [st EXCEPT !.assistants = action.payload]
      [] action.type = "ADD_ASSISTANT" ->
            [st EXCEPT !.assistants = AddAssistant(@, action.payload)]
      [] action.type = "UPDATE_ASSISTANT" ->
            [st EXCEPT !.assistants = UpdateAssistant(@, action.payload)]
      [] action.type = "REMOVE_ASSISTANT" ->
            [st EXCEPT !.assistants = RemoveAssistant(@, action.payload)]
      [] action.type = "SET_CONFIG" ->
            [st EXCEPT !.config = action.payload]
      [] action.type = "SET_TASKS" ->
            [st EXCEPT !.tasks = action.payload]
      [] action.type = "ADD_TASK" ->
            [st EXCEPT !.tasks = AddTask(@, action.payload)]
      [] action.type = "UPDATE_TASK" ->
            [st EXCEPT !.tasks = UpdateTask(@, action.payload.id,
                                            action.payload.updates)]
      [] action.type = "SET_INITIALIZED" ->
            [st EXCEPT !.isInitialized = action.payload]
      [] OTHER -> st

\* No dispatch.
NoAction == [type |-> "NONE"]

\* The switch of the message effect of SwarmProvider: the action it
\* dispatches for a message, if any.  There is no default case.
EffectAction(msg) ==
    CASE msg.type = "swarm-initialized" ->
            [type |-> "SET_INITIALIZED", payload |-> TRUE]
      [] msg.type = "assistant-created" ->
            IF msg.data.defined
            THEN [type |-> "ADD_ASSISTANT", payload |-> AssistantOf(msg.data)]
            ELSE NoAction
      [] msg.type = "assistant-updated" ->
            IF msg.data.defined
            THEN [type |-> "UPDATE_ASSISTANT", payload |-> AssistantOf(msg.data)]
            ELSE NoAction
      [] msg.type = "assistant-deleted" ->
            IF msg.data.defined /\ msg.data.id # Undefined
            THEN [type |-> "REMOVE_ASSISTANT", payload |-> msg.data.id]
            ELSE NoAction
      [] msg.type = "config-updated" ->
            IF msg.data.defined
            THEN [type |-> "SET_CONFIG", payload |-> msg.data.config]
            ELSE NoAction
      [] msg.type = "task-started" ->
            IF msg.data.defined
            THEN [type |-> "ADD_TASK", payload |-> TaskOf(msg.data)]
            ELSE NoAction
      [] msg.type = "task-completed" ->
            IF msg.data.defined
            THEN [type |-> "UPDATE_TASK",
                  payload |-> [id |-> msg.data.taskId,
                               updates |-> [status |-> "completed",
                                            result |-> msg.data.response]]]
            ELSE NoAction
      [] msg.type = "task-error" ->
            IF msg.data.defined
            THEN [type |-> "UPDATE_TASK",
                  payload |-> [id |-> msg.data.taskId,
                               updates |-> [status |-> "failed",
                                            error |-> msg.data.error]]]
            ELSE NoAction
      [] OTHER -> NoAction

\* Mutant of Project: a message the switch has no case for resets the
\* projection.
ProjectResetsOnUnknown(st, msg) ==
    IF EffectAction(msg).type = "NONE"
    THEN initialState
    ELSE swarmReducer(st, EffectAction(msg))

\* The body of the message effect for one message: the state after its
\* dispatch, if it dispatches.
Project(st, msg) ==
    IF EffectAction(msg).type = "NONE"
    THEN st
    ELSE swarmReducer(st, EffectAction(msg))

\* The envelopes of the scenario of the tests: an assistant is created, a
\* task is started for it, the task completes.
Scenario ==
    <<Env("assistant-created", AssistantData("a1", "X")),
      Env("task-started", StartedData("t1")),
      Env("task-completed", CompletedData("t1", "r1"))>>

\* Whether the projection holds an entity (assistant or task) the message
\* names.
Names(st, msg) ==
    \/ \E i \in 1..Len(st.assistants) : st.assistants[i].id = msg.data.id
    \/ \E i \in 1..Len(st.tasks) : st.tasks[i].id = msg.data.taskId

MsgInit ==
    /\ lastMessage = NoMessage
    /\ effectDeps = NoMessage
    /\ state = initialState
    /\ frames = 0
    /\ expected = initialState
    /\ scenario = 0
    /\ msgOp = [op |-> "init", json |-> TRUE, typed |-> TRUE, present |-> FALSE]

\* newSocket.onmessage: the frame is parsed and published with
\* setLastMessage; a parse error is caught and logged.  The switch that
\* follows only shows toasts.  Every parse makes a new object: seq is its
\* identity.
Publish(frame) ==
    /\ frames' = frames + 1
    /\ IF JSONParse(frame).threw
       THEN UNCHANGED <<lastMessage, expected>>
       ELSE /\ lastMessage' =
                  SetState(lastMessage,
                           [seq |-> frames + 1,
                            type |-> JSONParse(frame).value.type,
                            data |-> JSONParse(frame).value.data])
            /\ expected' = SetState(expected, Project(expected, JSONParse(frame).value))
    /\ msgOp' = [op |-> "onmessage", json |-> frame.json,
                 typed |-> frame.value.type # Undefined, present |-> FALSE]
    /\ UNCHANGED <<effectDeps, state, scenario>>

\* A frame arrives on an open transport.
onmessage(s, frame) ==
    /\ sockets[s].readyState = "OPEN"
    /\ frames < MaxFrames
    /\ Publish(frame)
    /\ UNCHANGED <<serverVars, clientVars, sendVars, taskVars, loadVars>>

\* Mutant of DepsChanged: the effect runs after every render.
DepsChangedAlways(prev, cur) == TRUE

\* The dependency list [lastMessage] of the message effect, compared with
\* Object.is: the effect runs again only for another message object.
DepsChanged(prev, cur) == prev.seq # cur.seq

\* The message effect of SwarmProvider, useEffect(..., [lastMessage]): it
\* runs after a render in which lastMessage is another object than in the
\* render it last ran for.  React renders once for all the state updates made
\* before it gets to render, so the effect sees the lastMessage of that
\* render only.
MessageEffect ==
    /\ phase = "mounted"
    /\ DepsChanged(effectDeps, lastMessage)
    /\ effectDeps' = lastMessage
    /\ state' = IF lastMessage.seq = 0 THEN state ELSE Project(state, lastMessage)
    /\ scenario' =
          IF /\ scenario >= 0
             /\ scenario < Len(Scenario)
             /\ Env(lastMessage.type, lastMessage.data) = Scenario[scenario + 1]
          THEN scenario + 1
          ELSE -1
    /\ msgOp' = [op |-> "effect", json |-> TRUE,
                 typed |-> lastMessage.type # Undefined,
                 present |-> Names(state, lastMessage)]
    /\ UNCHANGED <<lastMessage, frames, expected>>
    /\ UNCHANGED <<serverVars, clientVars, sendVars, taskVars, loadVars>>

\* One connected client: the provider mounts, its transport opens, frames
\* arrive and the message effect runs.
MessageNext ==
    \/ Mount
    \/ \E s \in SockIds : onopen(s)
    \/ \E s \in SockIds : \E frame \in Frames : onmessage(s, frame)
    \/ MessageEffect

\* ------------------------------------------------------------------------
\* A session: the connection of a client and its messages
\* ------------------------------------------------------------------------

\* The frames of a session: the welcome envelope of the server and two
\* envelopes that change the projection.
SessionFrames ==
    {[json |-> TRUE, value |-> m] :
        m \in {Env("connected", PlainData),
               Env("assistant-created", AssistantData("a1", "X")),
               Env("task-started", StartedData("t1"))}}

SessionNext ==
    \/ Mount
    \/ \E s \in SockIds : onopen(s)
    \/ \E s \in SockIds : TransportFail(s)
    \/ \E s \in SockIds : TransportClosed(s)
    \/ \E s \in SockIds : onerror(s)
    \/ \E s \in SockIds : onclose(s)
    \/ \E i \in 1..MaxSockets : TimerFire(i)
    \/ \E s \in SockIds : \E frame \in SessionFrames : onmessage(s, frame)
    \/ MessageEffect

\* ------------------------------------------------------------------------
\* The assistants: the routes of the server, loadAssistants, the envelopes
\* ------------------------------------------------------------------------

\* The assistants the routes are called with.
Assistants ==
    {AssistantOf(AssistantData(id, name)) : id \in {"a1", "a2"}, name \in {"X", "Y"}}

\* Whether the account has an assistant of that id.
Stored(id) == \E i \in 1..Len(store) : store[i].id = id

\* this.broadcast(type, data) as this client sees it: the frame is sent when
\* its transport is open.
Send(w, type, data) ==
    IF \E s \in SockIds : sockets[s].readyState = "OPEN"
    THEN Append(w, Env(type, data))
    ELSE w

LoadInit ==
    /\ store = <<>>
    /\ wire = <<>>
    /\ load = [pc |-> "idle", body |-> <<>>]
    /\ serverOps = 0

\* POST /api/assistants: the account creates the assistant under a new id,
\* then broadcast('assistant-created', assistant).
CreateAssistant(a) ==
    /\ serverOps < MaxOps
    /\ ~Stored(a.id)
    /\ store' = Append(store, a)
    /\ wire' = Send(wire, "assistant-created", AssistantData(a.id, a.name))
    /\ serverOps' = serverOps + 1
    /\ UNCHANGED load
    /\ UNCHANGED <<serverVars, clientVars, msgVars, sendVars, taskVars>>

\* PUT /api/assistants/:id: the account updates the assistant (the call
\* rejects for an id it does not have, and nothing is broadcast), then
\* broadcast('assistant-updated', assistant).
PutAssistant(a) ==
    /\ serverOps < MaxOps
    /\ Stored(a.id)
    /\ store' = [i \in 1..Len(store) |-> IF store[i].id = a.id THEN a ELSE store[i]]
    /\ wire' = Send(wire, "assistant-updated", AssistantData(a.id, a.name))
    /\ serverOps' = serverOps + 1
    /\ UNCHANGED load
    /\ UNCHANGED <<serverVars, clientVars, msgVars, sendVars, taskVars>>

\* DELETE /api/assistants/:id: the account deletes the assistant, then
\* broadcast('assistant-deleted', { id }).
DeleteAssistant(id) ==
    /\ serverOps < MaxOps
    /\ Stored(id)
    /\ store' = SelectSeq(store, LAMBDA a : a.id # id)
    /\ wire' = Send(wire, "assistant-deleted", DeletedData(id))
    /\ serverOps' = serverOps + 1
    /\ UNCHANGED load
    /\ UNCHANGED <<serverVars, clientVars, msgVars, sendVars, taskVars>>

\* loadAssistants up to its await: swarmAPI.getAssistants() is sent.  It is
\* called by the initial load effect of SwarmProvider.
loadAssistants ==
    /\ phase = "mounted"
    /\ load.pc = "idle"
    /\ load' = [load EXCEPT !.pc = "requested"]
    /\ UNCHANGED <<store, wire, serverOps>>
    /\ UNCHANGED <<serverVars, clientVars, msgVars, sendVars, taskVars>>

\* GET /api/assistants: the response is the list of the account at that
\* moment.
GetAssistants ==
    /\ load.pc = "requested"
    /\ load' = [pc |-> "responded", body |-> store]
    /\ UNCHANGED <<store, wire, serverOps>>
    /\ UNCHANGED <<serverVars, clientVars, msgVars, sendVars, taskVars>>

\* loadAssistants after its await: dispatch SET_ASSISTANTS with the response.
\* (The other dispatches write isLoading, apiKeyConfigured and error.)
LoadResolved ==
    /\ load.pc = "responded"
    /\ load' = [load EXCEPT !.pc = "done"]
    /\ state' = swarmReducer(state, [type |-> "SET_ASSISTANTS", payload |-> load.body])
    /\ expected' = swarmReducer(expected, [type |-> "SET_ASSISTANTS", payload |-> load.body])
    /\ UNCHANGED <<lastMessage, effectDeps, frames, scenario, msgOp>>
    /\ UNCHANGED <<store, wire, serverOps>>
    /\ UNCHANGED <<serverVars, clientVars, sendVars, taskVars>>

\* The oldest frame in flight arrives on the open transport: onmessage.
Deliver(s) ==
    /\ sockets[s].readyState = "OPEN"
    /\ wire # <<>>
    /\ Publish([json |-> TRUE, value |-> Head(wire)])
    /\ wire' = Tail(wire)
    /\ UNCHANGED <<store, load, serverOps>>
    /\ UNCHANGED <<serverVars, clientVars, sendVars, taskVars>>

LoadNext ==
    \/ Mount
    \/ \E s \in SockIds : onopen(s)
    \/ \E a \in Assistants : CreateAssistant(a)
    \/ \E a \in Assistants : PutAssistant(a)
    \/ \E id \in {"a1", "a2"} : DeleteAssistant(id)
    \/ loadAssistants
    \/ GetAssistants
    \/ LoadResolved
    \/ \E s \in SockIds : Deliver(s)
    \/ MessageEffect

\* ------------------------------------------------------------------------
\* Specifications
\* ------------------------------------------------------------------------

Init == ServerInit /\ ClientInit /\ MsgInit /\ SendInit /\ TaskInit /\ LoadInit

\* The server hub.
Spec == Init /\ [][ServerNext]_vars

\* One browser client.
ClientSpec == Init /\ [][ClientNext]_vars

\* The messages of one connected client and its projection.
MessageSpec == Init /\ [][MessageNext]_vars

\* The server while tasks are delegated.
TaskSpec == Init /\ [][TaskNext]_vars

\* One client: its connection, its reconnects and its messages.
SessionSpec == Init /\ [][SessionNext]_vars

\* One connected client, the assistant routes of the server and the load.
LoadSpec == Init /\ [][LoadNext]_vars

\* ------------------------------------------------------------------------
\* Properties of the server hub (checked under Spec)
\* ------------------------------------------------------------------------

\* C1: after every sequence of accepts, close events and monitor evictions the
\* map holds as many entries as connections were accepted minus the removals
\* that found their key; a close event for a key that is not in the map (the
\* close that follows an eviction) leaves the map as it was and throws nothing.
C1_RegistryCount ==
    [][ /\ Cardinality(clients') = accepted' - removed'
        /\ (lastOp'.op = "close" /\ lastOp'.id \notin clients)
              => (clients' = clients /\ removed' = removed /\ ~lastOp'.threw)
      ]_vars

\* C1 witness: a close event arrived for a connection the monitor had already
\* evicted, while another connection is still registered.
C1_Witness ==
    /\ lastOp.op = "close"
    /\ ~lastOp.tracked
    /\ removed >= 1
    /\ clients # {}

\* C2: a broadcast whose payload serializes and whose sends all succeed hands
\* the envelope once to every registered connection with an open transport and
\* to no other; every broadcast leaves the map, the liveness flags and the
\* transports as they were.
C2_BroadcastToOpenOnly ==
    [][ lastOp'.op = "broadcast" =>
          /\ clients' = clients
          /\ isAlive' = isAlive
          /\ readyState' = readyState
          /\ (lastOp'.serializable /\ lastOp'.throwers = {}) =>
                \A c \in Ids :
                    lastOp'.recv[c] =
                        IF c \in clients /\ readyState[c] = "OPEN" THEN 1 ELSE 0
      ]_vars

\* C2 witness: a successful broadcast with two open connections and one
\* registered connection whose transport is closing.
C2_Witness ==
    /\ lastOp.op = "broadcast"
    /\ lastOp.serializable
    /\ ~lastOp.threw
    /\ Cardinality({c \in clients : readyState[c] = "OPEN"}) >= 2
    /\ \E c \in clients : readyState[c] = "CLOSING" /\ lastOp.recv[c] = 0

\* C3: when a send of a broadcast throws, every other registered connection
\* with an open transport still receives the envelope.
C3_SendFailureIsolated ==
    (lastOp.op = "broadcast" /\ lastOp.serializable) =>
        \A c \in clients :
            (readyState[c] = "OPEN" /\ c \notin lastOp.throwers)
                => lastOp.recv[c] = 1

\* C4: a broadcast whose payload cannot be serialized sends nothing, throws to
\* its caller and leaves the registry as it was.
C4_SerializationAborts ==
    [][ (lastOp'.op = "broadcast" /\ ~lastOp'.serializable) =>
          /\ lastOp'.recv = NoRecv
          /\ lastOp'.threw
          /\ clients' = clients
          /\ isAlive' = isAlive
          /\ readyState' = readyState
      ]_vars

\* C4 witness: a broadcast failed to serialize while an open connection was
\* registered.
C4_Witness ==
    /\ lastOp.op = "broadcast"
    /\ ~lastOp.serializable
    /\ lastOp.threw
    /\ \E c \in clients : readyState[c] = "OPEN"

\* C5: a monitor tick evicts (terminates and removes) exactly the registered
\* connections that were probed by an earlier tick and have not answered
\* since, and keeps every other one; so no registered connection has more than
\* one unanswered probe.
C5_EvictOnSecondTick ==
    [][ /\ lastOp'.op = "tick" =>
              \A c \in clients :
                  /\ sinceProbe[c] >= 1 =>
                        /\ c \notin clients'
                        /\ readyState'[c] # "OPEN"
                        /\ c \in lastOp'.evicted
                  /\ sinceProbe[c] = 0 =>
                        /\ c \in clients'
                        /\ c \notin lastOp'.evicted
        /\ \A c \in clients' : sinceProbe'[c] <= 1
      ]_vars

\* C5 witness: a tick evicted a connection that had left its probe unanswered
\* and probed another one that stays registered.
C5_Witness ==
    /\ lastOp.op = "tick"
    /\ lastOp.evicted # {}
    /\ \E c \in clients : sinceProbe[c] = 1


\* ------------------------------------------------------------------------
\* Properties of the browser client (checked under ClientSpec)
\* ------------------------------------------------------------------------

\* C6: while the provider is mounted, the n-th delay scheduled since the last
\* successful connect is 2^(n-1) seconds: 1000, 2000, 4000, 8000, 16000 ms
\* for n = 1..5.
C6_BackoffDoubles ==
    phase = "mounted" =>
        \A n \in 1..Len(delays) :
            n <= maxReconnectAttempts => delays[n] = Pow2(n - 1) * 1000

\* C7: once more reconnect attempts than the budget of 5 have been started
\* with no successful connect in between and the last of them has failed, the
\* status is error and no reconnect is scheduled.
C7_ErrorAfterBudget ==
    ( /\ phase = "mounted"
      /\ reconnectAttempts > maxReconnectAttempts
      /\ \A s \in SockIds :
            sockets[s].readyState \in {"NONE", "CLOSED"} /\ sockets[s].events = <<>> )
    => (connectionStatus = "error" /\ timers = <<>>)

\* C8: a close or an error of the transport while the status is connecting or
\* connected and attempts remain sets the status to disconnected, and the
\* close schedules exactly one reconnect; the start of the attempt sets the
\* status to connecting; the status becomes connected only in onopen.
C8_DisconnectedThenReconnect ==
    [][ phase = "mounted" =>
          /\ ( /\ clientOp'.op \in {"onerror", "onclose"}
               /\ connectionStatus \in {"connecting", "connected"}
               /\ reconnectAttempts < maxReconnectAttempts )
             => /\ connectionStatus' = "disconnected"
                /\ clientOp'.op = "onclose" => Len(timers') = Len(timers) + 1
          /\ clientOp'.op = "timer" => connectionStatus' = "connecting"
          /\ (connectionStatus' = "connected" /\ connectionStatus # "connected")
             => clientOp'.op = "onopen"
      ]_vars

\* C9: the status is error only when the retry budget is exhausted.
C9_ErrorOnlyAfterBudget ==
    connectionStatus = "error" => reconnectAttempts >= maxReconnectAttempts

\* C10: after the provider has unmounted no WebSocket is constructed, no
\* reconnect timer fires and no status changes.
C10_NothingAfterTeardown ==
    [][ phase = "unmounted" =>
          /\ created' = created
          /\ clientOp'.op # "timer"
          /\ connectionStatus' = connectionStatus
          /\ isConnected' = isConnected
      ]_vars

\* ------------------------------------------------------------------------
\* Properties of the messages and the projection (under MessageSpec)
\* ------------------------------------------------------------------------

\* C11: every envelope received is handed to the projector exactly once and
\* in arrival order: once the message effect has run for the last message
\* published, the projection is the fold of the reducer over every envelope
\* received, in order.
C11_FoldOfEveryEnvelope ==
    (phase = "mounted" /\ effectDeps.seq = lastMessage.seq) => state = expected

\* C12: no two assistants of the projection have the same id and no two
\* tasks of the projection have the same id.
C12_UniqueIds ==
    /\ \A i, j \in 1..Len(state.assistants) :
          state.assistants[i].id = state.assistants[j].id => i = j
    /\ \A i, j \in 1..Len(state.tasks) :
          state.tasks[i].id = state.tasks[j].id => i = j

\* C13: the effect applied to an assistant-created, assistant-updated or
\* config-updated envelope that is the same envelope as the one it applied
\* just before leaves the projection as the first application left it.
C13_SameEnvelopeTwice ==
    [][ ( /\ msgOp'.op = "effect"
          /\ lastMessage.type \in
                {"assistant-created", "assistant-updated", "config-updated"}
          /\ Env(lastMessage.type, lastMessage.data)
                = Env(effectDeps.type, effectDeps.data) )
        => state' = state
      ]_vars

\* C14: an assistant-created envelope adds the assistant when its id is new
\* and overwrites the assistant of that id when it is present; the number of
\* assistants grows by one only when the id is new.
C14_CreatedInsertsById ==
    [][ ( /\ msgOp'.op = "effect"
          /\ lastMessage.type = "assistant-created"
          /\ lastMessage.data.defined )
        => IF \E i \in 1..Len(state.assistants) :
                 state.assistants[i].id = lastMessage.data.id
           THEN /\ Len(state'.assistants) = Len(state.assistants)
                /\ \A i \in 1..Len(state.assistants) :
                      state'.assistants[i] =
                         IF state.assistants[i].id = lastMessage.data.id
                         THEN AssistantOf(lastMessage.data)
                         ELSE state.assistants[i]
           ELSE state'.assistants =
                   Append(state.assistants, AssistantOf(lastMessage.data))
      ]_vars

\* C15: assistant-created a1, task-started t1 for a1 and task-completed t1
\* with response r1, applied in that order to the initial projection, yield
\* exactly one assistant a1 and exactly one task t1, completed, with result
\* r1.
C15_ScenarioCompleted ==
    scenario = Len(Scenario) =>
        /\ state.assistants = <<[id |-> "a1", name |-> "X"]>>
        /\ Len(state.tasks) = 1
        /\ state.tasks[1].id = "t1"
        /\ state.tasks[1].status = "completed"
        /\ state.tasks[1].result = "r1"
        /\ state.tasks[1].prompt = "p"
        /\ state.tasks[1].assistantIds = <<"a1">>

C15_Witness ==
    /\ scenario = Len(Scenario)
    /\ msgOp.op = "effect"
    /\ effectDeps.type = "task-completed"
    /\ state.tasks # <<>>

\* C16: a task-error envelope sets the status of the task of its id to
\* failed and attaches the error, leaves every other task unchanged, and
\* leaves the task list unchanged when no task has that id.
C16_TaskErrorFailsTask ==
    [][ ( /\ msgOp'.op = "effect"
          /\ lastMessage.type = "task-error"
          /\ lastMessage.data.defined )
        => /\ Len(state'.tasks) = Len(state.tasks)
           /\ \A i \in 1..Len(state.tasks) :
                 state'.tasks[i] =
                    IF state.tasks[i].id = lastMessage.data.taskId
                    THEN [state.tasks[i] EXCEPT
                             !.status = "failed",
                             !.error = lastMessage.data.error]
                    ELSE state.tasks[i]
           /\ (\A i \in 1..Len(state.tasks) :
                  state.tasks[i].id # lastMessage.data.taskId)
              => state'.tasks = state.tasks
           /\ state'.assistants = state.assistants
      ]_vars

C16_Witness ==
    /\ msgOp.op = "effect"
    /\ msgOp.present
    /\ effectDeps.type = "task-error"
    /\ \E i, j \in 1..Len(state.tasks) :
          /\ state.tasks[i].id = effectDeps.data.taskId
          /\ state.tasks[i].status = "failed"
          /\ state.tasks[i].error = "boom"
          /\ state.tasks[j].id # effectDeps.data.taskId
          /\ state.tasks[j].status = "running"

\* C17: an assistant-updated envelope replaces the assistant of its id with
\* the payload and leaves every other assistant and the order unchanged; when
\* no assistant has that id the projection is unchanged.
C17_UpdatedReplacesInPlace ==
    [][ ( /\ msgOp'.op = "effect"
          /\ lastMessage.type = "assistant-updated"
          /\ lastMessage.data.defined )
        => /\ Len(state'.assistants) = Len(state.assistants)
           /\ \A i \in 1..Len(state.assistants) :
                 state'.assistants[i] =
                    IF state.assistants[i].id = lastMessage.data.id
                    THEN AssistantOf(lastMessage.data)
                    ELSE state.assistants[i]
           /\ (\A i \in 1..Len(state.assistants) :
                  state.assistants[i].id # lastMessage.data.id)
              => state' = state
           /\ state'.tasks = state.tasks
           /\ state'.config = state.config
           /\ state'.isInitialized = state.isInitialized
      ]_vars

C17_Witness ==
    /\ msgOp.op = "effect"
    /\ msgOp.present
    /\ effectDeps.type = "assistant-updated"
    /\ Len(state.assistants) = 2
    /\ state.assistants[1] = [id |-> "a1", name |-> "Y"]
    /\ state.assistants[2] = [id |-> "a2", name |-> "X"]

\* C18: a task-started envelope puts a new task with status running at the
\* head of the task list; the tasks that were present follow it in the order
\* and with the contents they had.
C18_StartedPrepends ==
    [][ ( /\ msgOp'.op = "effect"
          /\ lastMessage.type = "task-started"
          /\ lastMessage.data.defined )
        => /\ Len(state'.tasks) = Len(state.tasks) + 1
           /\ state'.tasks[1].id = lastMessage.data.taskId
           /\ state'.tasks[1].status = "running"
           /\ state'.tasks[1].prompt = lastMessage.data.prompt
           /\ state'.tasks[1].assistantIds = lastMessage.data.assistantIds
           /\ \A i \in 1..Len(state.tasks) : state'.tasks[i + 1] = state.tasks[i]
      ]_vars

C18_Witness ==
    /\ msgOp.op = "effect"
    /\ effectDeps.type = "task-started"
    /\ Len(state.tasks) >= 2
    /\ state.tasks[1].id = effectDeps.data.taskId
    /\ state.tasks[1].id # state.tasks[2].id

\* C19: an envelope whose type is none of the types the projector handles
\* leaves the whole projection unchanged.
C19_UnknownTypeIgnored ==
    [][ ( /\ msgOp'.op = "effect"
          /\ lastMessage.type \notin
                {"swarm-initialized", "assistant-created", "assistant-updated",
                 "assistant-deleted", "config-updated", "task-started",
                 "task-completed", "task-error"} )
        => state' = state
      ]_vars

C19_Witness ==
    /\ msgOp.op = "effect"
    /\ effectDeps.type \in IgnoredTypes
    /\ state.assistants # <<>>
    /\ state = expected

\* C20: a frame that is not JSON, or that is JSON without a type, is
\* dropped: it is not published as the last message, the message effect
\* never runs for it, and the connection status is unchanged.
C20_MalformedDropped ==
    [][ /\ ( /\ msgOp'.op = "onmessage"
             /\ (~msgOp'.json \/ ~msgOp'.typed) )
           => /\ lastMessage' = lastMessage
              /\ connectionStatus' = connectionStatus
        /\ msgOp'.op = "effect" => msgOp'.typed
      ]_vars

\* ------------------------------------------------------------------------
\* Further properties of the client, the server and the session
\* ------------------------------------------------------------------------

\* C21 (ClientSpec): sendMessage called while no transport of the client is
\* open hands nothing to a socket, and the message is not kept: no other step
\* transmits anything, and what a call transmits is its own message on a
\* transport that is open at the call.
C21_SendWhenClosedIsDropped ==
    [][ /\ ( /\ sendCalls' # sendCalls
             /\ \A s \in SockIds : sockets[s].readyState # "OPEN" )
           => transmitted' = transmitted
        /\ sendCalls' = sendCalls => transmitted' = transmitted
        /\ \A t \in transmitted' \ transmitted :
              /\ t.call = sendCalls'
              /\ sockets[t.sock].readyState = "OPEN"
      ]_vars

C21_Witness ==
    /\ sendCalls >= 1
    /\ transmitted = {}
    /\ clientOp.op = "onopen"
    /\ created >= 2
    /\ sockets[clientOp.sock].readyState = "OPEN"

\* C22 (Spec): the accept of a connection sends one connected envelope to the
\* new connection, whose id is new, and nothing to any other connection.
C22_WelcomeToNewOnly ==
    [][ (lastOp'.op = "connection" /\ accepted' # accepted)
        => /\ lastOp'.id \notin clients
           /\ lastOp'.id \in clients'
           /\ lastOp'.recv[lastOp'.id] = 1
           /\ \A c \in Ids \ {lastOp'.id} : lastOp'.recv[c] = 0
      ]_vars

C22_Witness ==
    /\ lastOp.op = "connection"
    /\ \E c \in clients : c # lastOp.id /\ readyState[c] = "OPEN"

\* C23 (SessionSpec): the projection changes only when the message effect
\* handles a message that was published since it last ran; a message is
\* published only by a frame received on an open transport; a step that
\* changes the connection (status, flag, socket, transports) leaves the
\* projection and the last message as they are.
C23_ProjectionSurvivesReconnect ==
    [][ /\ state' # state
           => /\ msgOp'.op = "effect"
              /\ lastMessage.seq # effectDeps.seq
              /\ effectDeps' = lastMessage
        /\ lastMessage' # lastMessage
           => /\ msgOp'.op = "onmessage"
              /\ \E s \in SockIds : sockets[s].readyState = "OPEN"
        /\ ( \/ connectionStatus' # connectionStatus
             \/ isConnected' # isConnected
             \/ socket' # socket
             \/ sockets' # sockets )
           => /\ state' = state
              /\ lastMessage' = lastMessage
              /\ effectDeps' = effectDeps
      ]_vars

C23_Witness ==
    /\ created >= 2
    /\ clientOp.op = "onopen"
    /\ clientOp.sock = created
    /\ connectionStatus = "connected"
    /\ state.assistants = <<[id |-> "a1", name |-> "X"]>>
    /\ Len(state.tasks) = 1
    /\ effectDeps.seq = lastMessage.seq

\* C24 (Spec): a connection that has answered every probe is not evicted by a
\* tick: its flag is true at the tick, the tick sets it to false and probes
\* it, and the pong sets it back to true.
C24_ResponsiveNeverEvicted ==
    [][ /\ lastOp'.op = "tick"
           => \A c \in clients :
                 sinceProbe[c] = 0
                 => /\ isAlive[c]
                    /\ c \in clients'
                    /\ c \notin lastOp'.evicted
                    /\ ~isAlive'[c]
                    /\ sinceProbe'[c] = 1
                    /\ readyState'[c] = readyState[c]
        /\ lastOp'.op = "pong"
           => /\ isAlive'[lastOp'.id]
              /\ sinceProbe'[lastOp'.id] = 0
      ]_vars

C24_Witness ==
    /\ lastOp.op = "tick"
    /\ \E c \in clients : \E d \in lastOp.evicted :
          /\ c < d
          /\ sinceProbe[c] = 1
          /\ ~isAlive[c]
          /\ readyState[c] = "OPEN"

\* C25 (Spec): a tick handles every connection registered at its start
\* once: one whose flag is false is evicted, one whose flag is true is probed
\* once and stays; the map after the tick holds exactly the connections
\* probed, and connections that were not registered are not touched.
C25_TickHandlesEachOnce ==
    [][ lastOp'.op = "tick"
        => /\ \A c \in clients :
                 IF isAlive[c]
                 THEN /\ c \in clients'
                      /\ c \notin lastOp'.evicted
                      /\ ~isAlive'[c]
                      /\ sinceProbe'[c] = sinceProbe[c] + 1
                 ELSE /\ c \notin clients'
                      /\ c \in lastOp'.evicted
                      /\ sinceProbe'[c] = sinceProbe[c]
           /\ \A c \in Ids \ clients :
                 /\ c \notin clients'
                 /\ c \notin lastOp'.evicted
                 /\ isAlive'[c] = isAlive[c]
                 /\ sinceProbe'[c] = sinceProbe[c]
           /\ clients' = {c \in clients : isAlive[c]}
           /\ removed' = removed + Cardinality(lastOp'.evicted)
      ]_vars

C25_Witness ==
    /\ lastOp.op = "tick"
    /\ Cardinality(lastOp.evicted) >= 1
    /\ \E c \in clients : \E d \in lastOp.evicted :
          /\ d < c
          /\ ~isAlive[c]
          /\ sinceProbe[c] >= 1

\* C26 (ClientSpec): at most one transport of the client is connecting or
\* open, and a WebSocket is constructed only when none is.
C26_OneLiveTransport ==
    [][ /\ Cardinality({s \in SockIds :
                          sockets'[s].readyState \in {"CONNECTING", "OPEN"}}) <= 1
        /\ created' # created
           => \A s \in SockIds : sockets[s].readyState \notin {"CONNECTING", "OPEN"}
      ]_vars

C26_Witness ==
    /\ phase = "mounted"
    /\ created >= 3
    /\ clientOp.op = "timer"
    /\ sockets[created].readyState = "CONNECTING"
    /\ \E s \in SockIds : s < created /\ sockets[s].readyState = "CLOSED"

\* C27 (ClientSpec): isConnected is true exactly when connectionStatus is
\* connected.
C27_FlagMatchesStatus ==
    phase = "mounted" => (isConnected <=> connectionStatus = "connected")

\* C28 (TaskSpec): the task envelopes a transport is handed for one task are
\* task-started first, if at all, and at most one of task-completed and
\* task-error.
C28_OneTerminalAfterStart ==
    \A t \in Tasks : \A c \in Ids :
        /\ \A i \in 1..Len(delivered[t][c]) :
              delivered[t][c][i] = "task-started" => i = 1
        /\ Cardinality({i \in 1..Len(delivered[t][c]) :
                           delivered[t][c][i] \in TerminalTypes}) <= 1

\* C29 (MessageSpec): a task of the projection whose status is completed or
\* failed is what it was after every later envelope.
C29_TerminalTaskFrozen ==
    [][ \A i \in 1..Len(state.tasks) :
           state.tasks[i].status \in {"completed", "failed"}
           => /\ Len(state'.tasks) >= Len(state.tasks)
              /\ state'.tasks[i + Len(state'.tasks) - Len(state.tasks)]
                    = state.tasks[i]
      ]_vars

\* C30 (LoadSpec): when the load has completed, every envelope broadcast
\* has been received and handled in order and none is in flight, the
\* projection holds the assistants of the account, each once.
C30_LoadAndEnvelopesConverge ==
    ( /\ load.pc = "done"
      /\ wire = <<>>
      /\ frames = serverOps
      /\ effectDeps.seq = lastMessage.seq
      /\ state = expected )
    => /\ {state.assistants[i] : i \in 1..Len(state.assistants)}
             = {store[i] : i \in 1..Len(store)}
       /\ \A i, j \in 1..Len(state.assistants) :
             state.assistants[i].id = state.assistants[j].id => i = j

=============================================================================
